---- MODULE Spec2Model ----
(***************************************************************************)
(* A model of enrichm/comparer.py (class Compare): the best-hit table      *)
(* built by _parse_blast, the metadata parser, the pan-genome aggregator,  *)
(* the saturation-curve computation, the synteny neighbour lookup and the  *)
(* control flow of do.  Python 2 semantics (dict.keys() lists, round()).   *)
(***************************************************************************)
EXTENDS Integers, Sequences, FiniteSets, TLC

VARIABLES
    \* _parse_blast
    blast_lines,    \* the lines of result_path read so far, in file order
    result,         \* the nested dict `result`
    blast_pc,       \* "loop" | "done" (returned) | "error" (raised)
    blast_err,      \* the exception raised, "none" if none
    \* _metadata_parser
    meta_file,      \* the lines of metadata_path
    meta_idx,       \* how many of them the loop has read
    metadata,       \* the dict `metadata`: group -> set of genome names
    seen,           \* the set `seen`
    meta_pc,        \* "loop" | "done" (returned) | "error" (raised)
    meta_err,       \* the exception raised, "none" if none

    \* saturate
    sat_loaded,         \* genome name -> genome.orthologs, for every loaded genome
    genomes_list,       \* the argument genomes_list: the group's genomes, by name
    orthologs,          \* the argument orthologs
    sat_group,          \* the loop variable `group` of line 256 (0 before the loop)
    sat_indices,        \* the state of combinations(genomes_list, group): the indices
                        \* of the combination to yield next, <<>> when exhausted
    core_counts,        \* the list core_counts
    accessory_counts,   \* the list accessory_counts
    sat_result,         \* the dict `result` of saturate
    sat_output,         \* the rows written to `output`
    sat_pc,             \* "size" | "combination" | "done"
    enumerated,         \* history: size -> the combinations yielded for it, in order

    \* _pan_genome
    pan_genome_dict,    \* the argument genome_dict: name -> genome object
    pan_metadata,       \* the argument metadata: group -> set of genome names
    pan_left,           \* the groups metadata.items() has still to yield
    pan_result,         \* the dict `result` of _pan_genome
    pan_pc,             \* "loop" | "done" (returned) | "error" (raised)
    pan_err,            \* the exception raised, "none" if none

    \* _synteny
    syn_genomes,        \* genome_list: [name, protein_ordered_dict] records
    best_hits,          \* the table of _self_blast, as name -> set of its keys
    syn_genome,         \* index in genome_list of the loop variable `genome`
    syn_left,           \* positions protein_ordered_dict.items() has still to yield
    position,           \* the loop variable `position` (0 before an iteration)
    upstream_id,        \* the local upstream_id, "unassigned" until assigned
    downstream_id,      \* the local downstream_id, "unassigned" until assigned
    up_read,            \* the key read at line 144 in this iteration, "none" if none
    down_read,          \* the key read at line 153 in this iteration, "none" if none
    upstream_synt,      \* "one" (the default 1) | "calc_synt" | "unassigned"
    downstream_synt,    \* likewise
    syn_pc,             \* "genomes" | "positions" | "done" | "error"
    syn_err,            \* [type, line] of the exception raised, NoError if none

    \* do
    do_file,            \* the lines of metadata_path
    do_pickles,         \* the pickled genome objects, by genome name
    do_metadata,        \* the local metadata
    genome_dict,        \* the local genome_dict
    ortholog_list,      \* the local ortholog_list
    do_left,            \* the groups the loop of line 327 has still to take
    do_written,         \* the files written so far: file -> rows
    do_pc,              \* "metadata" | "pickles" | "saturate" | "pan_genome" |
                        \* "features" | "compare" | "done" | "error"
    do_err              \* [type, line] of the exception that ended do, NoError if none

blastVars == <<blast_lines, result, blast_pc, blast_err>>

metaVars == <<meta_file, meta_idx, metadata, seen, meta_pc, meta_err>>

satVars == <<sat_loaded, genomes_list, orthologs, sat_group, sat_indices, core_counts,
             accessory_counts, sat_result, sat_output, sat_pc, enumerated>>

panVars == <<pan_genome_dict, pan_metadata, pan_left, pan_result, pan_pc, pan_err>>

synVars == <<syn_genomes, best_hits, syn_genome, syn_left, position, upstream_id,
             downstream_id, up_read, down_read, upstream_synt, downstream_synt,
             syn_pc, syn_err>>

doVars == <<do_file, do_pickles, do_metadata, genome_dict, ortholog_list, do_left,
            do_written, do_pc, do_err>>

vars == <<blastVars, metaVars, satVars, panVars, synVars, doVars>>

(***************************************************************************)
(* Bounds                                                                  *)
(***************************************************************************)
MaxRecords == 3
MaxLines == 3
MaxOrthologs == 2
MaxClusters == 2
MaxSequences == 2
MaxPositions == 3
MaxDoLines == 2

(***************************************************************************)
(* Helpers on sequences and sets                                           *)
(***************************************************************************)
Range(s) == {s[i] : i \in 1..Len(s)}

\* a Python dict with one more key (or one key overwritten)
DictSet(d, k, v) == [x \in (DOMAIN d) \cup {k} |-> IF x = k THEN v ELSE d[x]]

EmptyDict == [x \in {} |-> 0]

\* no exception
NoError == [type |-> "none", line |-> 0]

(***************************************************************************)
(* _parse_blast                                                            *)
(***************************************************************************)
\* The e-value column as text.  "1e-05" and "0.00001" are two spellings of
\* one number; "abc" is no number.
EValueTexts == {"1e-10", "1e-05", "0.00001", "abc"}

\* whether float(text) returns (it raises ValueError otherwise)
IsNumeric(text) == text \in {"1e-10", "1e-05", "0.00001"}

\* float(text) for a numeric text, in units of 1e-10
Float(text) ==
    CASE text = "1e-10"   -> 1
      [] text = "1e-05"   -> 100000
      [] text = "0.00001" -> 100000

\* (query genome, query sequence, hit genome) triples of the modelled files:
\* enough to take each of the four branches of lines 92-103.
BlastTriples ==
    { <<"g1", "p1", "g1">>, <<"g1", "p1", "g2">>,
      <<"g1", "p2", "g1">>, <<"g2", "p1", "g1">> }

HitSequenceIds == {"p1", "p2"}

\* A line after strip().split('\t'): the number of fields, the qseqid and
\* sseqid fields split on '~', and the evalue field.  The nine other fields
\* are never read.
WellFormedLines ==
    { [nfields |-> 12, qseqid |-> <<t[1], t[2]>>, sseqid |-> <<t[3], h>>, evalue |-> e] :
        t \in BlastTriples, h \in HitSequenceIds, e \in EValueTexts }

MalformedLines ==
    { [nfields |-> 11, qseqid |-> <<"g1", "p1">>, sseqid |-> <<"g1", "p1">>, evalue |-> "1e-05"],
      [nfields |-> 13, qseqid |-> <<"g1", "p1">>, sseqid |-> <<"g1", "p1">>, evalue |-> "1e-05"],
      [nfields |-> 12, qseqid |-> <<"g1">>,       sseqid |-> <<"g1", "p1">>, evalue |-> "1e-05"] }

BlastLines == WellFormedLines \cup MalformedLines

\* line 88-91: the three tuple unpackings
Unpacks(line) ==
    /\ line.nfields = 12
    /\ Len(line.qseqid) = 2
    /\ Len(line.sseqid) = 2

\* a comparison that also replaces on equal e-values
EvalueLessOrEqual(evalue, p_eval) == Float(evalue) <= Float(p_eval)

\* line 102: float(evalue) < float(p_eval)
EvalueLess(evalue, p_eval) == Float(evalue) < Float(p_eval)

\* lines 92-103 for one unpacked line whose comparison, if any, does not raise
StoreHit(res, line) ==
    LET genome          == line.qseqid[1]
        sequence_id     == line.qseqid[2]
        hit_genome      == line.sseqid[1]
        hit_sequence_id == line.sseqid[2]
        rec             == <<hit_genome, hit_sequence_id, line.evalue>>
    IN  IF genome \notin DOMAIN res
        THEN DictSet(res, genome, DictSet(EmptyDict, sequence_id, DictSet(EmptyDict, hit_genome, rec)))
        ELSE IF sequence_id \notin DOMAIN res[genome]
        THEN DictSet(res, genome, DictSet(res[genome], sequence_id, DictSet(EmptyDict, hit_genome, rec)))
        ELSE IF hit_genome \notin DOMAIN res[genome][sequence_id]
        THEN DictSet(res, genome,
                 DictSet(res[genome], sequence_id,
                     DictSet(res[genome][sequence_id], hit_genome, rec)))
        ELSE IF EvalueLess(line.evalue, res[genome][sequence_id][hit_genome][3])
        THEN DictSet(res, genome,
                 DictSet(res[genome], sequence_id,
                     DictSet(res[genome][sequence_id], hit_genome, rec)))
        ELSE res

\* whether line 102 is reached for this line
Compares(res, line) ==
    /\ line.qseqid[1] \in DOMAIN res
    /\ line.qseqid[2] \in DOMAIN res[line.qseqid[1]]
    /\ line.sseqid[1] \in DOMAIN res[line.qseqid[1]][line.qseqid[2]]

\* whether line 102 raises: one of the two float() calls fails
CompareRaises(res, line) ==
    /\ Compares(res, line)
    /\ \/ ~IsNumeric(line.evalue)
       \/ ~IsNumeric(res[line.qseqid[1]][line.qseqid[2]][line.sseqid[1]][3])

BlastStart ==
    /\ blast_lines = <<>>
    /\ result = EmptyDict
    /\ blast_pc = "loop"
    /\ blast_err = "none"

\* _parse_blast is not running
BlastIdle ==
    /\ blast_lines = <<>>
    /\ result = EmptyDict
    /\ blast_pc = "idle"
    /\ blast_err = "none"

\* one iteration of the loop of line 87
ParseLine ==
    /\ blast_pc = "loop"
    /\ Len(blast_lines) < MaxRecords
    /\ \E line \in BlastLines :
        /\ blast_lines' = Append(blast_lines, line)
        /\ IF ~Unpacks(line) \/ CompareRaises(result, line)
           THEN /\ blast_pc' = "error"
                /\ blast_err' = "ValueError"
                /\ result' = result
           ELSE /\ result' = StoreHit(result, line)
                /\ UNCHANGED <<blast_pc, blast_err>>

\* end of file: line 104
ParseReturn ==
    /\ blast_pc = "loop"
    /\ blast_pc' = "done"
    /\ UNCHANGED <<blast_lines, result, blast_err>>

(***************************************************************************)
(* _metadata_parser                                                        *)
(***************************************************************************)
MetaNames == {"g1", "g2", "g3"}

MetaGroups == {"A", "B"}

\* A line after strip().split('\t'): its fields.  Two fields are a genome
\* name and a group label; any other number of fields fails the unpacking.
MetaLines ==
    { <<n, g>> : n \in MetaNames, g \in MetaGroups }
        \cup { <<"g1">>, <<"g1", "A", "x">> }

SeqsUpTo(S, n) == UNION { [1..k -> S] : k \in 0..n }

MetaFiles == SeqsUpTo(MetaLines, MaxLines)

\* a duplicate test that looks only at the group the line names
SeenInGroup(genome, group, seenSet, md) ==
    group \in DOMAIN md /\ genome \in md[group]

\* line 166: genome in seen
SeenBefore(genome, group, seenSet, md) == genome \in seenSet

\* lines 165-172: the loop body on one line.  st is the parser's state,
\* [metadata, seen, err].
MetaLineStep(st, line) ==
    IF Len(line) # 2
    THEN [st EXCEPT !.err = "ValueError"]
    ELSE LET genome == line[1]
             group  == line[2]
         IN  IF SeenBefore(genome, group, st.seen, st.metadata)
             THEN [st EXCEPT !.err = "DuplicateEntry"]
             ELSE [ metadata |->
                        IF group \in DOMAIN st.metadata
                        THEN DictSet(st.metadata, group, st.metadata[group] \cup {genome})
                        ELSE DictSet(st.metadata, group, {genome}),
                    seen |-> st.seen \cup {genome},
                    err  |-> "none" ]

MetaStartState == [metadata |-> EmptyDict, seen |-> {}, err |-> "none"]

\* lines 162-173 on a whole file: the state at the return or at the raise
RECURSIVE MetaRun(_, _, _)
MetaRun(st, file, i) ==
    IF i > Len(file) \/ st.err # "none"
    THEN st
    ELSE MetaRun(MetaLineStep(st, file[i]), file, i + 1)

MetadataParser(file) == MetaRun(MetaStartState, file, 1)

MetaStart ==
    /\ meta_file \in MetaFiles
    /\ meta_idx = 0
    /\ metadata = EmptyDict
    /\ seen = {}
    /\ meta_pc = "loop"
    /\ meta_err = "none"

MetaIdle ==
    /\ meta_file = <<>>
    /\ meta_idx = 0
    /\ metadata = EmptyDict
    /\ seen = {}
    /\ meta_pc = "idle"
    /\ meta_err = "none"

\* one iteration of the loop of line 164
MetaReadLine ==
    /\ meta_pc = "loop"
    /\ meta_idx < Len(meta_file)
    /\ LET st == MetaLineStep([metadata |-> metadata, seen |-> seen, err |-> "none"],
                              meta_file[meta_idx + 1])
       IN  /\ meta_idx' = meta_idx + 1
           /\ metadata' = st.metadata
           /\ seen' = st.seen
           /\ meta_err' = st.err
           /\ meta_pc' = IF st.err = "none" THEN "loop" ELSE "error"
    /\ UNCHANGED meta_file

\* end of file: line 173
MetaReturn ==
    /\ meta_pc = "loop"
    /\ meta_idx = Len(meta_file)
    /\ meta_pc' = "done"
    /\ UNCHANGED <<meta_file, meta_idx, metadata, seen, meta_err>>

(***************************************************************************)
(* gather_stats (the second definition, line 240, is the one in force)     *)
(***************************************************************************)
RECURSIVE SumSeq(_)
SumSeq(s) == IF s = <<>> THEN 0 ELSE s[1] + SumSeq(Tail(s))

Squares(s) == [i \in 1..Len(s) |-> s[i] * s[i]]

MinOf(S) == CHOOSE x \in S : \A y \in S : x <= y

MaxOf(S) == CHOOSE x \in S : \A y \in S : x >= y

\* the k-th smallest element of a non-empty list (k from 1)
KthSmallest(s, k) ==
    CHOOSE v \in Range(s) :
        /\ Cardinality({ i \in 1..Len(s) : s[i] < v }) < k
        /\ Cardinality({ i \in 1..Len(s) : s[i] <= v }) >= k

\* np.percentile(a, q) times 100 (linear interpolation between the two
\* nearest ranks)
Percentile100(s, q) ==
    LET pos   == (Len(s) - 1) * q
        lower == pos \div 100
        frac  == pos % 100
        lo    == KthSmallest(s, lower + 1)
        hi    == IF lower + 2 <= Len(s) THEN KthSmallest(s, lower + 2) ELSE lo
    IN  100 * lo + frac * (hi - lo)

\* lines 240-250 on a non-empty list of integers.  The real-valued entries
\* are kept exact: the mean as <<sum, count>>, the median doubled, the
\* standard deviation as count^2 times its square, the percentiles times 100.
GatherStats(number_list) ==
    LET n == Len(number_list)
    IN  [ mean    |-> <<SumSeq(number_list), n>>,
          median2 |-> IF n % 2 = 1
                      THEN 2 * KthSmallest(number_list, (n + 1) \div 2)
                      ELSE KthSmallest(number_list, n \div 2)
                               + KthSmallest(number_list, n \div 2 + 1),
          std2n2  |-> n * SumSeq(Squares(number_list))
                          - SumSeq(number_list) * SumSeq(number_list),
          minimum |-> MinOf(Range(number_list)),
          maximum |-> MaxOf(Range(number_list)),
          p90     |-> Percentile100(number_list, 90),
          p10     |-> Percentile100(number_list, 10) ]

(***************************************************************************)
(* saturate, as do calls it                                                *)
(***************************************************************************)
SatNames == {"g1", "g2", "g3"}

OrthologIds == 1..MaxOrthologs

\* the lists of distinct names: a group's genomes in the order the set
\* of line 329 iterates
Lists(S) ==
    { l \in UNION { [1..k -> S] : k \in 1..Cardinality(S) } :
        \A i, j \in 1..Len(l) : i # j => l[i] # l[j] }

\* an ortholog list built by intersection instead of union
OrthologIntersection(loaded) ==
    { o \in OrthologIds : \A g \in DOMAIN loaded : o \in loaded[g] }

\* line 325: set.union(*[genome.orthologs for genome in genome_list])
OrthologUniverse(loaded) == UNION { loaded[g] : g \in DOMAIN loaded }

\* a range that stops one short
SizeRangeShort(n) == 1..(n - 1)

\* line 256: range(1, len(genomes_list)+1)
SizeRange(n) == 1..n

\* itertools.combinations(pool, r), n = len(pool): its first index tuple
FirstIndices(n, r) == IF r > n THEN <<>> ELSE [i \in 1..r |-> i]

\* itertools.combinations: the index tuple after ind, <<>> when ind is the last
NextIndices(ind, n) ==
    LET r       == Len(ind)
        movable == { i \in 1..r : ind[i] # i + n - r }
    IN  IF movable = {}
        THEN <<>>
        ELSE LET i == MaxOf(movable)
             IN  [j \in 1..r |-> IF j < i THEN ind[j] ELSE ind[i] + 1 + (j - i)]

\* line 269: len([True for genome in combination if ortholog in genome.orthologs])
Hits(ortholog, combination, loaded) ==
    Cardinality({ i \in 1..Len(combination) : ortholog \in loaded[combination[i]] })

\* lines 268-271: the orthologs counted into core_count
CoreCount(combination, orths, loaded) ==
    Cardinality({ o \in orths : Hits(o, combination, loaded) = Len(combination) })

\* an accessory count that leaves out the orthologs no genome of the
\* combination holds
AccessoryCountPresent(combination, orths, loaded) ==
    Cardinality({ o \in orths : /\ Hits(o, combination, loaded) # Len(combination)
                                /\ Hits(o, combination, loaded) > 0 })

\* lines 268-273: the orthologs counted into accessory_count
AccessoryCount(combination, orths, loaded) ==
    Cardinality({ o \in orths : Hits(o, combination, loaded) # Len(combination) })

SatStart ==
    /\ sat_loaded \in [SatNames -> SUBSET OrthologIds]
    /\ genomes_list \in Lists(SatNames)
    /\ orthologs = OrthologUniverse(sat_loaded)
    /\ sat_group = 0
    /\ sat_indices = <<>>
    /\ core_counts = <<>>
    /\ accessory_counts = <<>>
    /\ sat_result = EmptyDict
    /\ sat_output = {}
    /\ sat_pc = "size"
    /\ enumerated = EmptyDict

SatIdle ==
    /\ sat_loaded = EmptyDict
    /\ genomes_list = <<>>
    /\ orthologs = {}
    /\ sat_group = 0
    /\ sat_indices = <<>>
    /\ core_counts = <<>>
    /\ accessory_counts = <<>>
    /\ sat_result = EmptyDict
    /\ sat_output = {}
    /\ sat_pc = "idle"
    /\ enumerated = EmptyDict

\* the sizes the loop of line 256 has still to take
SizesLeft == { k \in SizeRange(Len(genomes_list)) : k > sat_group }

\* lines 256-261: the next size, with its empty lists and a fresh iterator
SatBeginSize ==
    /\ sat_pc = "size"
    /\ SizesLeft # {}
    /\ sat_group' = MinOf(SizesLeft)
    /\ core_counts' = <<>>
    /\ accessory_counts' = <<>>
    /\ sat_indices' = FirstIndices(Len(genomes_list), sat_group')
    /\ enumerated' = DictSet(enumerated, sat_group', <<>>)
    /\ sat_pc' = "combination"
    /\ UNCHANGED <<sat_loaded, genomes_list, orthologs, sat_result, sat_output>>

\* lines 261-275: one combination, with its loop over the orthologs
SatCombination ==
    /\ sat_pc = "combination"
    /\ sat_indices # <<>>
    /\ LET combination == [i \in 1..Len(sat_indices) |-> genomes_list[sat_indices[i]]]
       IN  /\ core_counts' =
                  Append(core_counts, CoreCount(combination, orthologs, sat_loaded))
           /\ accessory_counts' =
                  Append(accessory_counts, AccessoryCount(combination, orthologs, sat_loaded))
           /\ enumerated' =
                  DictSet(enumerated, sat_group, Append(enumerated[sat_group], combination))
    /\ sat_indices' = NextIndices(sat_indices, Len(genomes_list))
    /\ UNCHANGED <<sat_loaded, genomes_list, orthologs, sat_group, sat_result, sat_output, sat_pc>>

\* line 277, once the iterator is exhausted
SatFinishSize ==
    /\ sat_pc = "combination"
    /\ sat_indices = <<>>
    /\ sat_result' = DictSet(sat_result, sat_group,
                             [ core      |-> GatherStats(core_counts),
                               accessory |-> GatherStats(accessory_counts) ])
    /\ sat_pc' = "size"
    /\ UNCHANGED <<sat_loaded, genomes_list, orthologs, sat_group, sat_indices,
                   core_counts, accessory_counts, sat_output, enumerated>>

\* lines 295-299: the rows of the table, one for each key of result
SaturationRows(res) == { <<k, res[k].core, res[k].accessory>> : k \in DOMAIN res }

\* lines 261-275 for one size: the lists core_counts and accessory_counts
\* once the iterator, now at ind, is exhausted
RECURSIVE SizeCounts(_, _, _, _, _, _)
SizeCounts(ind, list, orths, loaded, cores, accessories) ==
    IF ind = <<>>
    THEN <<cores, accessories>>
    ELSE LET combination == [i \in 1..Len(ind) |-> list[ind[i]]]
         IN  SizeCounts(NextIndices(ind, Len(list)), list, orths, loaded,
                        Append(cores, CoreCount(combination, orths, loaded)),
                        Append(accessories, AccessoryCount(combination, orths, loaded)))

\* lines 253-277 as one call: the dict `result`
SaturateResult(list, orths, loaded) ==
    [ k \in SizeRange(Len(list)) |->
        LET counts == SizeCounts(FirstIndices(Len(list), k), list, orths, loaded, <<>>, <<>>)
        IN  [ core |-> GatherStats(counts[1]), accessory |-> GatherStats(counts[2]) ] ]

\* lines 279-299: the table, one row for each key of result
SatWrite ==
    /\ sat_pc = "size"
    /\ SizesLeft = {}
    /\ sat_output' = SaturationRows(sat_result)
    /\ sat_pc' = "done"
    /\ UNCHANGED <<sat_loaded, genomes_list, orthologs, sat_group, sat_indices,
                   core_counts, accessory_counts, sat_result, enumerated>>

(***************************************************************************)
(* Genome objects and _pan_genome                                          *)
(***************************************************************************)
\* The attributes of a Genome object that comparer.py reads.  An object is
\* [has, orthologs, clusters, sequences]: the attributes it has, its
\* ortholog set, its cluster set and len() of its sequences dict; gc and
\* length are read only for their presence.
Attributes == {"orthologs", "clusters", "sequences", "gc", "length"}

ClusterIds == 1..MaxClusters

PanNames == {"g1", "g2"}

PanGroups == {"A", "B"}

\* fully attributed genome objects
FullGenomes ==
    [ has : {Attributes}, orthologs : {{}}, clusters : SUBSET ClusterIds,
      sequences : 0..MaxSequences ]

\* the mappings _metadata_parser can return over these names: every name
\* under at most one group, no group empty
Metadatas(names, groups) ==
    { md \in UNION { [G -> (SUBSET names) \ {{}}] : G \in SUBSET groups } :
        \A g1, g2 \in DOMAIN md : g1 # g2 => md[g1] \cap md[g2] = {} }

\* round(x, 2) of Python 2 for x = num/den >= 0, in hundredths: to the
\* nearest hundredth, a half away from zero
Round2(num, den) == (2 * 100 * num + den) \div (2 * den)

\* line 179: len(set.intersection(*[genome.clusters for genome in group_genomes]))
CoreGenomeSize(group_genomes) ==
    Cardinality({ c \in ClusterIds : \A g \in group_genomes : c \in g.clusters })

\* a genome size taken from the cluster set
GenomeClusterCount(genome) == Cardinality(genome.clusters)

\* line 180: len(genome.sequences)
GenomeLength(genome) == genome.sequences

RECURSIVE SumLengths(_)
SumLengths(S) ==
    IF S = {} THEN 0
    ELSE LET x == CHOOSE y \in S : TRUE
         IN  GenomeLength(x[2]) + SumLengths(S \ {x})

\* lines 178-183 for one group (gdict is the argument genome_dict): the
\* exception raised, or the entry [core size, percent in hundredths]
\* stored in result
PanGroup(gdict, genomes) ==
    IF \E g \in genomes : g \notin DOMAIN gdict
    THEN [err |-> "KeyError", entry |-> <<>>]
    ELSE LET group_genomes == { gdict[g] : g \in genomes }
             named         == { <<g, gdict[g]>> : g \in genomes }
         IN  IF \E g \in group_genomes : "clusters" \notin g.has
             THEN [err |-> "AttributeError", entry |-> <<>>]
             ELSE IF \E g \in group_genomes : "sequences" \notin g.has
             THEN [err |-> "AttributeError", entry |-> <<>>]
             ELSE IF SumLengths(named) = 0
             THEN [err |-> "ZeroDivisionError", entry |-> <<>>]
             ELSE \* core / (sum / n) * 100 = core * n * 100 / sum
                  [ err   |-> "none",
                    entry |-> << CoreGenomeSize(group_genomes),
                                 Round2(CoreGenomeSize(group_genomes)
                                            * Cardinality(genomes) * 100,
                                        SumLengths(named)) >> ]

PanStart ==
    /\ pan_genome_dict \in
          UNION { [D -> FullGenomes] : D \in (SUBSET PanNames) \ {{}} }
    /\ pan_metadata \in Metadatas(PanNames, PanGroups)
    /\ pan_left = DOMAIN pan_metadata
    /\ pan_result = EmptyDict
    /\ pan_pc = "loop"
    /\ pan_err = "none"

PanIdle ==
    /\ pan_genome_dict = EmptyDict
    /\ pan_metadata = EmptyDict
    /\ pan_left = {}
    /\ pan_result = EmptyDict
    /\ pan_pc = "idle"
    /\ pan_err = "none"

\* one iteration of the loop of line 177; metadata.items() yields the
\* groups in an order the dict chooses
PanNextGroup ==
    /\ pan_pc = "loop"
    /\ \E group \in pan_left :
        LET out == PanGroup(pan_genome_dict, pan_metadata[group])
        IN  /\ pan_left' = pan_left \ {group}
            /\ IF out.err = "none"
               THEN /\ pan_result' = DictSet(pan_result, group, out.entry)
                    /\ UNCHANGED <<pan_pc, pan_err>>
               ELSE /\ pan_pc' = "error"
                    /\ pan_err' = out.err
                    /\ UNCHANGED pan_result
    /\ UNCHANGED <<pan_genome_dict, pan_metadata>>

\* line 184
PanReturn ==
    /\ pan_pc = "loop"
    /\ pan_left = {}
    /\ pan_pc' = "done"
    /\ UNCHANGED <<pan_genome_dict, pan_metadata, pan_left, pan_result, pan_err>>

(***************************************************************************)
(* _synteny                                                                *)
(***************************************************************************)
ProteinIds == {"p1", "p2"}

Positions == 1..MaxPositions

\* protein_ordered_dict: position -> protein id, over any set of positions
OrderMaps == UNION { [P -> ProteinIds] : P \in SUBSET Positions }

\* genome_list: one or two genomes
SyntenyGenomeLists ==
    { << [name |-> "g1", protein_ordered_dict |-> o] >> : o \in OrderMaps }
      \cup { << [name |-> "g1", protein_ordered_dict |-> o1],
                [name |-> "g2", protein_ordered_dict |-> o2] >> :
                o1 \in OrderMaps, o2 \in OrderMaps }

\* The keys of the table _parse_blast returns: a genome is a key once it has
\* a hit, and then maps to the non-empty dict of its sequences with a hit.
BestHitKeys(names) ==
    UNION { [G -> (SUBSET ProteinIds) \ {{}}] : G \in SUBSET names }

SynStart ==
    /\ syn_genomes \in SyntenyGenomeLists
    /\ best_hits \in BestHitKeys({ syn_genomes[i].name : i \in 1..Len(syn_genomes) })
    /\ syn_genome = 0
    /\ syn_left = {}
    /\ position = 0
    /\ upstream_id = "unassigned"
    /\ downstream_id = "unassigned"
    /\ up_read = "none"
    /\ down_read = "none"
    /\ upstream_synt = "unassigned"
    /\ downstream_synt = "unassigned"
    /\ syn_pc = "genomes"
    /\ syn_err = NoError

SynIdle ==
    /\ syn_genomes = <<>>
    /\ best_hits = EmptyDict
    /\ syn_genome = 0
    /\ syn_left = {}
    /\ position = 0
    /\ upstream_id = "unassigned"
    /\ downstream_id = "unassigned"
    /\ up_read = "none"
    /\ down_read = "none"
    /\ upstream_synt = "unassigned"
    /\ downstream_synt = "unassigned"
    /\ syn_pc = "idle"
    /\ syn_err = NoError

\* lines 141-149 at position pos of genome g, entered with the local
\* downstream_id holding d: what the upstream half leaves behind
UpstreamHalf(g, pos, d) ==
    LET order    == g.protein_ordered_dict
        upstream == pos - 1
    IN  IF upstream \in DOMAIN order
        THEN LET uid == order[upstream]
             IN  IF g.name \notin DOMAIN best_hits
                 THEN [err |-> [type |-> "KeyError", line |-> 143],
                       uid |-> uid, read |-> "none", synt |-> upstream_synt]
                 ELSE IF uid \in best_hits[g.name]
                 THEN \* line 144 indexes the table with downstream_id
                      IF d = "unassigned"
                      THEN [err |-> [type |-> "UnboundLocalError", line |-> 144],
                            uid |-> uid, read |-> "none", synt |-> upstream_synt]
                      ELSE IF d \notin best_hits[g.name]
                      THEN [err |-> [type |-> "KeyError", line |-> 144],
                            uid |-> uid, read |-> "none", synt |-> upstream_synt]
                      ELSE [err |-> NoError, uid |-> uid, read |-> d, synt |-> "calc_synt"]
                 ELSE [err |-> NoError, uid |-> uid, read |-> "none", synt |-> "one"]
        ELSE [err |-> NoError, uid |-> upstream_id, read |-> "none", synt |-> "one"]

\* lines 150-159 at position pos of genome g
DownstreamHalf(g, pos) ==
    LET order      == g.protein_ordered_dict
        downstream == pos + 1
    IN  IF downstream \in DOMAIN order
        THEN LET did == order[downstream]
             IN  IF g.name \notin DOMAIN best_hits
                 THEN [err |-> [type |-> "KeyError", line |-> 152],
                       did |-> did, read |-> "none", synt |-> downstream_synt]
                 ELSE IF did \in best_hits[g.name]
                 THEN [err |-> NoError, did |-> did, read |-> did, synt |-> "calc_synt"]
                 ELSE [err |-> NoError, did |-> did, read |-> "none", synt |-> "one"]
        ELSE [err |-> NoError, did |-> downstream_id, read |-> "none", synt |-> "one"]

\* line 137: the next genome of genome_list
SynNextGenome ==
    /\ syn_pc = "genomes"
    /\ syn_genome < Len(syn_genomes)
    /\ syn_genome' = syn_genome + 1
    /\ syn_left' = DOMAIN syn_genomes[syn_genome'].protein_ordered_dict
    /\ syn_pc' = "positions"
    /\ UNCHANGED <<syn_genomes, best_hits, position, upstream_id, downstream_id,
                   up_read, down_read, upstream_synt, downstream_synt, syn_err>>

\* lines 138-159: one iteration of the loop over protein_ordered_dict.items(),
\* which yields the positions in an order the mapping chooses
SynPosition ==
    /\ syn_pc = "positions"
    /\ \E pos \in syn_left :
        LET g  == syn_genomes[syn_genome]
            up == UpstreamHalf(g, pos, downstream_id)
            dn == DownstreamHalf(g, pos)
        IN  /\ position' = pos
            /\ syn_left' = syn_left \ {pos}
            /\ upstream_id' = up.uid
            /\ up_read' = up.read
            /\ upstream_synt' = up.synt
            /\ IF up.err # NoError
               THEN /\ syn_err' = up.err
                    /\ syn_pc' = "error"
                    /\ down_read' = "none"
                    /\ UNCHANGED <<downstream_id, downstream_synt>>
               ELSE /\ downstream_id' = dn.did
                    /\ down_read' = dn.read
                    /\ downstream_synt' = dn.synt
                    /\ syn_err' = dn.err
                    /\ syn_pc' = IF dn.err # NoError THEN "error" ELSE "positions"
    /\ UNCHANGED <<syn_genomes, best_hits, syn_genome>>

\* the loop over the positions of one genome is over
SynGenomeDone ==
    /\ syn_pc = "positions"
    /\ syn_left = {}
    /\ syn_pc' = "genomes"
    /\ UNCHANGED <<syn_genomes, best_hits, syn_genome, syn_left, position, upstream_id,
                   downstream_id, up_read, down_read, upstream_synt, downstream_synt,
                   syn_err>>

\* the end of _synteny (it returns None)
SynReturn ==
    /\ syn_pc = "genomes"
    /\ syn_genome = Len(syn_genomes)
    /\ syn_pc' = "done"
    /\ UNCHANGED <<syn_genomes, best_hits, syn_genome, syn_left, position, upstream_id,
                   downstream_id, up_read, down_read, upstream_synt, downstream_synt,
                   syn_err>>

(***************************************************************************)
(* do                                                                      *)
(***************************************************************************)
DoNames == {"g1", "g2"}

DoGroups == {"A", "B"}

DoLines == { <<n, g>> : n \in DoNames, g \in DoGroups } \cup { <<"g1">> }

DoFiles == SeqsUpTo(DoLines, MaxDoLines)

\* The pickled genome of a name: any set of attributes, no or one sequence;
\* g1 holds orthologs (and clusters) 1 and 2, g2 holds 2.
DoGenomes(name) ==
    [ has       : SUBSET Attributes,
      orthologs : { IF name = "g1" THEN {1, 2} ELSE {2} },
      clusters  : { IF name = "g1" THEN {1, 2} ELSE {2} },
      sequences : 0..1 ]

DoPickles ==
    UNION { { f \in [D -> UNION { DoGenomes(n) : n \in D }] :
                \A n \in D : f[n] \in DoGenomes(n) } : D \in SUBSET DoNames }

DoStart ==
    /\ do_file \in DoFiles
    /\ do_pickles \in DoPickles
    /\ do_metadata = EmptyDict
    /\ genome_dict = EmptyDict
    /\ ortholog_list = {}
    /\ do_left = {}
    /\ do_written = EmptyDict
    /\ do_pc = "metadata"
    /\ do_err = NoError

DoIdle ==
    /\ do_file = <<>>
    /\ do_pickles = EmptyDict
    /\ do_metadata = EmptyDict
    /\ genome_dict = EmptyDict
    /\ ortholog_list = {}
    /\ do_left = {}
    /\ do_written = EmptyDict
    /\ do_pc = "idle"
    /\ do_err = NoError

DoRaise(type, line) ==
    /\ do_pc' = "error"
    /\ do_err' = [type |-> type, line |-> line]

\* line 318
DoMetadata ==
    /\ do_pc = "metadata"
    /\ LET st == MetadataParser(do_file)
       IN  IF st.err # "none"
           THEN /\ DoRaise(st.err, 318)
                /\ UNCHANGED do_metadata
           ELSE /\ do_metadata' = st.metadata
                /\ do_pc' = "pickles"
                /\ UNCHANGED do_err
    /\ UNCHANGED <<do_file, do_pickles, genome_dict, ortholog_list, do_left, do_written>>

\* lines 323-325: set.union() of no set is a TypeError, and a genome
\* without orthologs an AttributeError
DoLoad ==
    /\ do_pc = "pickles"
    /\ genome_dict' = do_pickles
    /\ IF DOMAIN do_pickles = {}
       THEN /\ DoRaise("TypeError", 325)
            /\ UNCHANGED <<ortholog_list, do_left>>
       ELSE IF \E n \in DOMAIN do_pickles : "orthologs" \notin do_pickles[n].has
       THEN /\ DoRaise("AttributeError", 325)
            /\ UNCHANGED <<ortholog_list, do_left>>
       ELSE /\ ortholog_list' =
                   OrthologUniverse([n \in DOMAIN do_pickles |-> do_pickles[n].orthologs])
            /\ do_left' = DOMAIN do_metadata
            /\ do_pc' = "saturate"
            /\ UNCHANGED do_err
    /\ UNCHANGED <<do_file, do_pickles, do_metadata, do_written>>

\* lines 327-331: one group, taken in the order metadata.items() chooses,
\* its genomes listed in the order the set iterates
DoSaturateGroup ==
    /\ do_pc = "saturate"
    /\ \E group_name \in do_left :
        /\ do_left' = do_left \ {group_name}
        /\ IF \E g \in do_metadata[group_name] : g \notin DOMAIN genome_dict
           THEN /\ DoRaise("KeyError", 329)
                /\ UNCHANGED do_written
           ELSE /\ \E group_list \in Lists(do_metadata[group_name]) :
                      /\ Range(group_list) = do_metadata[group_name]
                      /\ do_written' =
                            DictSet(do_written, <<"saturation", group_name>>,
                                SaturationRows(
                                    SaturateResult(group_list, ortholog_list,
                                        [n \in DOMAIN genome_dict |-> genome_dict[n].orthologs])))
                /\ UNCHANGED <<do_pc, do_err>>
    /\ UNCHANGED <<do_file, do_pickles, do_metadata, genome_dict, ortholog_list>>

\* the loop of line 327 is over
DoSaturateDone ==
    /\ do_pc = "saturate"
    /\ do_left = {}
    /\ do_pc' = "pan_genome"
    /\ UNCHANGED <<do_file, do_pickles, do_metadata, genome_dict, ortholog_list, do_left,
                   do_written, do_err>>

\* lines 333-334: _pan_genome raises what the first failing group, in the
\* order of metadata.items(), raises; else its result is written
DoPanGenome ==
    /\ do_pc = "pan_genome"
    /\ LET failing == { g \in DOMAIN do_metadata :
                          PanGroup(genome_dict, do_metadata[g]).err # "none" }
       IN  IF failing # {}
           THEN /\ \E g \in failing :
                      DoRaise(PanGroup(genome_dict, do_metadata[g]).err, 333)
                /\ UNCHANGED do_written
           ELSE /\ do_written' =
                      DictSet(do_written, <<"core_genome_size">>,
                          { <<g, PanGroup(genome_dict, do_metadata[g]).entry>> :
                              g \in DOMAIN do_metadata })
                /\ do_pc' = "features"
                /\ UNCHANGED do_err
    /\ UNCHANGED <<do_file, do_pickles, do_metadata, genome_dict, ortholog_list, do_left>>

\* line 336: hasattr(genome_dict.values()[0], "gc")
HasFeatures(first) == "gc" \in first.has

\* line 336, on the genome the dict lists first
DoFeatureCheck ==
    /\ do_pc = "features"
    /\ \E n \in DOMAIN genome_dict :
          do_pc' = IF HasFeatures(genome_dict[n]) THEN "compare" ELSE "done"
    /\ UNCHANGED <<do_file, do_pickles, do_metadata, genome_dict, ortholog_list, do_left,
                   do_written, do_err>>

\* Line 337.  _compare_features reads genome.gc and genome.length of every
\* genome of every group (lines 223-225).  When all are there it still
\* raises: results has no key self.tests (line 232), if run_mannwhitneyu has
\* not raised on the empty "Tests" list before (lines 201-207).  Line 338
\* is never reached.
DoCompareFeatures ==
    /\ do_pc = "compare"
    /\ IF \E g \in DOMAIN do_metadata : \E n \in do_metadata[g] :
             ~({"gc", "length"} \subseteq genome_dict[n].has)
       THEN DoRaise("AttributeError", 337)
       ELSE \E type \in {"ValueError", "KeyError"} :
                /\ (DOMAIN do_metadata = {} => type = "KeyError")
                /\ DoRaise(type, 337)
    /\ UNCHANGED <<do_file, do_pickles, do_metadata, genome_dict, ortholog_list, do_left,
                   do_written>>

(***************************************************************************)
(* Specifications                                                          *)
(***************************************************************************)
BlastInit == BlastStart /\ MetaIdle /\ SatIdle /\ PanIdle /\ SynIdle /\ DoIdle

BlastNext ==
    \/ ParseLine /\ UNCHANGED <<metaVars, satVars, panVars, synVars, doVars>>
    \/ ParseReturn /\ UNCHANGED <<metaVars, satVars, panVars, synVars, doVars>>

SpecBlast == BlastInit /\ [][BlastNext]_vars

MetaInit == MetaStart /\ BlastIdle /\ SatIdle /\ PanIdle /\ SynIdle /\ DoIdle

MetaNext ==
    \/ MetaReadLine /\ UNCHANGED <<blastVars, satVars, panVars, synVars, doVars>>
    \/ MetaReturn /\ UNCHANGED <<blastVars, satVars, panVars, synVars, doVars>>

SpecMeta == MetaInit /\ [][MetaNext]_vars

SatInit == SatStart /\ BlastIdle /\ MetaIdle /\ PanIdle /\ SynIdle /\ DoIdle

SatNext ==
    \/ SatBeginSize /\ UNCHANGED <<blastVars, metaVars, panVars, synVars, doVars>>
    \/ SatCombination /\ UNCHANGED <<blastVars, metaVars, panVars, synVars, doVars>>
    \/ SatFinishSize /\ UNCHANGED <<blastVars, metaVars, panVars, synVars, doVars>>
    \/ SatWrite /\ UNCHANGED <<blastVars, metaVars, panVars, synVars, doVars>>

SpecSat == SatInit /\ [][SatNext]_vars

PanInit == PanStart /\ BlastIdle /\ MetaIdle /\ SatIdle /\ SynIdle /\ DoIdle

PanNext ==
    \/ PanNextGroup /\ UNCHANGED <<blastVars, metaVars, satVars, synVars, doVars>>
    \/ PanReturn /\ UNCHANGED <<blastVars, metaVars, satVars, synVars, doVars>>

SpecPan == PanInit /\ [][PanNext]_vars

SyntInit == SynStart /\ BlastIdle /\ MetaIdle /\ SatIdle /\ PanIdle /\ DoIdle

SyntNext ==
    \/ SynNextGenome /\ UNCHANGED <<blastVars, metaVars, satVars, panVars, doVars>>
    \/ SynPosition /\ UNCHANGED <<blastVars, metaVars, satVars, panVars, doVars>>
    \/ SynGenomeDone /\ UNCHANGED <<blastVars, metaVars, satVars, panVars, doVars>>
    \/ SynReturn /\ UNCHANGED <<blastVars, metaVars, satVars, panVars, doVars>>

SpecSynt == SyntInit /\ [][SyntNext]_vars

DoInit == DoStart /\ BlastIdle /\ MetaIdle /\ SatIdle /\ PanIdle /\ SynIdle

DoNext ==
    \/ DoMetadata /\ UNCHANGED <<blastVars, metaVars, satVars, panVars, synVars>>
    \/ DoLoad /\ UNCHANGED <<blastVars, metaVars, satVars, panVars, synVars>>
    \/ DoSaturateGroup /\ UNCHANGED <<blastVars, metaVars, satVars, panVars, synVars>>
    \/ DoSaturateDone /\ UNCHANGED <<blastVars, metaVars, satVars, panVars, synVars>>
    \/ DoPanGenome /\ UNCHANGED <<blastVars, metaVars, satVars, panVars, synVars>>
    \/ DoFeatureCheck /\ UNCHANGED <<blastVars, metaVars, satVars, panVars, synVars>>
    \/ DoCompareFeatures /\ UNCHANGED <<blastVars, metaVars, satVars, panVars, synVars>>

SpecDo == DoInit /\ [][DoNext]_vars

(***************************************************************************)
(* Properties of _parse_blast                                              *)
(***************************************************************************)
LineTriple(line) == <<line.qseqid[1], line.qseqid[2], line.sseqid[1]>>

LineRecord(line) == <<line.sseqid[1], line.sseqid[2], line.evalue>>

\* the (query genome, query sequence, hit genome) triples the table holds
TableTriples ==
    UNION { UNION { { <<g, q, h>> : h \in DOMAIN result[g][q] } : q \in DOMAIN result[g] } :
            g \in DOMAIN result }

Occurrences(t) == { i \in 1..Len(blast_lines) : LineTriple(blast_lines[i]) = t }

\* the first line, in input order, among those of minimal e-value for t
FirstMinimal(t) ==
    CHOOSE i \in Occurrences(t) :
        \A j \in Occurrences(t) :
            \/ Float(blast_lines[i].evalue) < Float(blast_lines[j].evalue)
            \/ /\ Float(blast_lines[i].evalue) = Float(blast_lines[j].evalue)
               /\ i <= j

AllWellFormed ==
    \A i \in 1..Len(blast_lines) :
        Unpacks(blast_lines[i]) /\ IsNumeric(blast_lines[i].evalue)

\* C1: whatever well-formed records have been processed, the table holds
\* exactly the triples of the input, one record each, and the record of a
\* triple is the first one, in input order, of numerically minimal e-value.
C1_BestHitRetained ==
    AllWellFormed =>
        /\ blast_err = "none"
        /\ TableTriples = { LineTriple(blast_lines[i]) : i \in 1..Len(blast_lines) }
        /\ \A t \in TableTriples :
              result[t[1]][t[2]][t[3]] = LineRecord(blast_lines[FirstMinimal(t)])

\* C1 witness: parsing has returned after three records of one triple: a
\* record, a numerically equal one spelt differently, then a lower one.
C1_Witness ==
    /\ blast_pc = "done"
    /\ Len(blast_lines) = 3
    /\ AllWellFormed
    /\ LineTriple(blast_lines[1]) = LineTriple(blast_lines[2])
    /\ LineTriple(blast_lines[2]) = LineTriple(blast_lines[3])
    /\ blast_lines[1].evalue = "1e-05"
    /\ blast_lines[2].evalue = "0.00001"
    /\ blast_lines[3].evalue = "1e-10"
    /\ result[blast_lines[1].qseqid[1]][blast_lines[1].qseqid[2]][blast_lines[1].sseqid[1]][3] = "1e-10"

MalformedRecord(line) == ~Unpacks(line) \/ ~IsNumeric(line.evalue)

\* C9: a record with a wrong field count or a non-numeric e-value ends
\* parsing in an error at that record, so that no table is returned, and a
\* non-numeric e-value is never stored in the table.
C9_FailFast ==
    /\ \A i \in 1..Len(blast_lines) :
          MalformedRecord(blast_lines[i]) =>
              blast_pc = "error" /\ i = Len(blast_lines)
    /\ \A t \in TableTriples : IsNumeric(result[t[1]][t[2]][t[3]][3])

(***************************************************************************)
(* Properties of _metadata_parser                                          *)
(***************************************************************************)
\* the file holds only two-column lines
TwoColumnFile == \A i \in 1..Len(meta_file) : Len(meta_file[i]) = 2

\* some genome name stands in the first column of two lines
DuplicateInFile ==
    \E i, j \in 1..Len(meta_file) : i < j /\ meta_file[i][1] = meta_file[j][1]

MetaFileNames == { meta_file[i][1] : i \in 1..Len(meta_file) }

\* C3: a returned mapping holds every genome name of the file in exactly one
\* group set and no empty group set; a file with a genome name on two lines
\* is never accepted, and when its lines are two-column lines the parser
\* ends in the duplicate-entry error.
C3_MetadataPartition ==
    /\ meta_pc = "done" =>
          /\ \A n \in MetaFileNames :
                Cardinality({ g \in DOMAIN metadata : n \in metadata[g] }) = 1
          /\ \A g \in DOMAIN metadata : metadata[g] # {} /\ metadata[g] \subseteq MetaFileNames
    /\ DuplicateInFile => meta_pc # "done"
    /\ (DuplicateInFile /\ TwoColumnFile /\ meta_pc \notin {"loop", "idle"}) =>
          meta_pc = "error" /\ meta_err = "DuplicateEntry"

\* C3 witness: a file that names one genome under two different groups has
\* been refused with the duplicate-entry error.
C3_Witness ==
    /\ meta_pc = "error"
    /\ meta_err = "DuplicateEntry"
    /\ TwoColumnFile
    /\ \E i, j \in 1..Len(meta_file) :
          i < j /\ meta_file[i][1] = meta_file[j][1] /\ meta_file[i][2] # meta_file[j][2]

(***************************************************************************)
(* Properties of saturate                                                  *)
(***************************************************************************)
\* the combination whose counts stand at place i of the lists of this size
CombinationAt(i) == enumerated[sat_group][i]

\* C2: for every size and every combination, core_count + accessory_count
\* is the number of orthologs passed in, and core_count counts exactly the
\* orthologs that every genome of the combination holds.
C2_CorePlusAccessory ==
    /\ Len(core_counts) = Len(accessory_counts)
    /\ \A i \in 1..Len(core_counts) :
          /\ core_counts[i] + accessory_counts[i] = Cardinality(orthologs)
          /\ core_counts[i] =
                Cardinality({ o \in orthologs :
                                \A g \in Range(CombinationAt(i)) : o \in sat_loaded[g] })

\* C2 witness: the three pairs of a group of three have been counted, and
\* the first pair has a core ortholog, and an ortholog neither genome holds.
C2_Witness ==
    /\ sat_group = 2
    /\ Len(genomes_list) = 3
    /\ Len(core_counts) = 3
    /\ core_counts[1] > 0
    /\ \E o \in orthologs : \A g \in Range(CombinationAt(1)) : o \notin sat_loaded[g]

\* C5: at size 1, core_count is the genome's own ortholog count and
\* accessory_count is the size of the universe minus that count.
C5_SingleGenomeCounts ==
    sat_group = 1 =>
        \A i \in 1..Len(core_counts) :
            /\ Len(CombinationAt(i)) = 1
            /\ core_counts[i] = Cardinality(sat_loaded[CombinationAt(i)[1]])
            /\ accessory_counts[i] =
                  Cardinality(orthologs) - Cardinality(sat_loaded[CombinationAt(i)[1]])

\* C5 witness: every genome of a group of three has been counted alone, one
\* of them with both a core and an accessory ortholog.
C5_Witness ==
    /\ sat_group = 1
    /\ Len(genomes_list) = 3
    /\ Len(core_counts) = 3
    /\ \E i \in 1..3 : core_counts[i] > 0 /\ accessory_counts[i] > 0

RECURSIVE Binomial(_, _)
Binomial(n, k) ==
    IF k < 0 \/ k > n THEN 0
    ELSE IF k = 0 \/ k = n THEN 1
    ELSE Binomial(n - 1, k - 1) + Binomial(n - 1, k)

GroupSet == Range(genomes_list)

\* C6: the sizes are taken in ascending order; the finished result has one
\* entry, and the table one row, for each size 1..n and no other; the entry
\* of size k aggregates C(n,k) combinations, which are the k-element subsets
\* of the group, each enumerated once.
C6_OneEntryPerSize ==
    /\ DOMAIN sat_result \in { 1..sat_group, 1..(sat_group - 1) }
    /\ sat_pc = "done" =>
          LET n == Len(genomes_list)
          IN  /\ DOMAIN sat_result = 1..n
              /\ { row[1] : row \in sat_output } = 1..n
              /\ Cardinality(sat_output) = n
              /\ \A k \in 1..n :
                    /\ sat_result[k].core.mean[2] = Binomial(n, k)
                    /\ sat_result[k].accessory.mean[2] = Binomial(n, k)
                    /\ Len(enumerated[k]) = Binomial(n, k)
                    /\ \A i \in 1..Len(enumerated[k]) :
                          /\ Len(enumerated[k][i]) = k
                          /\ Cardinality(Range(enumerated[k][i])) = k
                    /\ \A i, j \in 1..Len(enumerated[k]) :
                          i # j => Range(enumerated[k][i]) # Range(enumerated[k][j])
                    /\ { Range(enumerated[k][i]) : i \in 1..Len(enumerated[k]) }
                          = { S \in SUBSET GroupSet : Cardinality(S) = k }

\* C6 witness: the table of a group of three genomes has been written, and
\* its last size saw the one combination that is the whole group.
C6_Witness ==
    /\ sat_pc = "done"
    /\ Len(genomes_list) = 3
    /\ Cardinality(sat_output) = 3
    /\ enumerated[3] = << genomes_list >>
    /\ Len(enumerated[2]) = 3

(***************************************************************************)
(* Properties of _pan_genome                                               *)
(***************************************************************************)
\* the groups of exactly one genome that have an entry in the result
SingletonGroups ==
    { g \in DOMAIN pan_result : Cardinality(pan_metadata[g]) = 1 }

TheGenome(group) == pan_genome_dict[CHOOSE n \in pan_metadata[group] : TRUE]

\* C4 as stated: for a group of one genome the reported core size is the
\* genome's cluster count and the reported percent is exactly 100.00.
C4_SingletonIsHundredPercent ==
    \A g \in SingletonGroups :
        /\ pan_result[g][1] = Cardinality(TheGenome(g).clusters)
        /\ pan_result[g][2] = 10000

\* C4 amended: for a group of one genome with at least one sequence the
\* reported core size is the genome's cluster count and the reported percent
\* is 100 * clusters / sequences to the nearest hundredth, which is 100.00
\* when the two counts are equal.
C4_SingletonPercentOfSequences ==
    \A g \in SingletonGroups :
        LET clusters  == Cardinality(TheGenome(g).clusters)
            sequences == TheGenome(g).sequences
            percent   == pan_result[g][2]
        IN  /\ sequences > 0
            /\ pan_result[g][1] = clusters
            /\ 2 * (percent * sequences - 10000 * clusters) <= sequences
            /\ 2 * (10000 * clusters - percent * sequences) <= sequences
            /\ clusters = sequences => percent = 10000

\* C4 witness: _pan_genome has returned an entry for a group of one genome
\* that has one cluster and two sequences.
C4_Witness ==
    /\ pan_pc = "done"
    /\ \E g \in SingletonGroups :
          /\ Cardinality(TheGenome(g).clusters) = 1
          /\ TheGenome(g).sequences = 2
          /\ pan_result[g] = <<1, 5000>>

(***************************************************************************)
(* Properties of _synteny                                                  *)
(***************************************************************************)
\* the genome the loop is at, and whether the neighbour of `position` at
\* offset d (-1 upstream, +1 downstream) has a recorded best hit
CurrentGenome == syn_genomes[syn_genome]

NeighbourHasHit(d) ==
    /\ position + d \in DOMAIN CurrentGenome.protein_ordered_dict
    /\ CurrentGenome.name \in DOMAIN best_hits
    /\ CurrentGenome.protein_ordered_dict[position + d] \in best_hits[CurrentGenome.name]

\* an iteration of the loop over the positions has just been completed
IterationDone ==
    /\ syn_pc = "positions"
    /\ position \in (DOMAIN CurrentGenome.protein_ordered_dict) \ syn_left

\* C10: the neighbour lookup is symmetric: each sub-score is computed from
\* the table entry of the protein at the neighbour position, it is 1 when
\* the neighbour position or its best hit is missing, and the lookup never
\* uses an identifier that is unassigned or was assigned for another
\* neighbour or position.
C10_SymmetricLookup ==
    /\ syn_err.type # "UnboundLocalError"
    /\ ~(syn_err.type = "KeyError" /\ syn_err.line = 144)
    /\ IterationDone =>
          /\ up_read = IF NeighbourHasHit(-1)
                       THEN CurrentGenome.protein_ordered_dict[position - 1]
                       ELSE "none"
          /\ down_read = IF NeighbourHasHit(1)
                         THEN CurrentGenome.protein_ordered_dict[position + 1]
                         ELSE "none"
          /\ (upstream_synt = "one") <=> ~NeighbourHasHit(-1)
          /\ (downstream_synt = "one") <=> ~NeighbourHasHit(1)

\* the part of C10 that holds of the downstream half alone
DownstreamLookupRight ==
    IterationDone =>
        /\ down_read = IF NeighbourHasHit(1)
                       THEN CurrentGenome.protein_ordered_dict[position + 1]
                       ELSE "none"
        /\ (downstream_synt = "one") <=> ~NeighbourHasHit(1)

\* an iteration whose upstream lookup read the entry of another protein
\* than the upstream neighbour
StaleUpstreamRead ==
    /\ IterationDone
    /\ NeighbourHasHit(-1)
    /\ up_read # CurrentGenome.protein_ordered_dict[position - 1]

(***************************************************************************)
(* Properties of do                                                        *)
(***************************************************************************)
\* the input errors: a duplicate metadata entry, a metadata genome name
\* with no loaded genome, a genome without orthologs, clusters or sequences
InputError ==
    \/ do_err.type = "DuplicateEntry"
    \/ do_err.type = "KeyError" /\ do_err.line = 329
    \/ do_err.type = "AttributeError" /\ do_err.line \in {325, 333}

\* C7: when an input error ends the run, no result table has been written.
C7_NoPartialExecution == InputError => DOMAIN do_written = {}

\* some loaded genome lacks gc or length
FeaturesMissing ==
    \E n \in DOMAIN genome_dict : ~({"gc", "length"} \subseteq genome_dict[n].has)

\* C8: when gc or length is missing from a loaded genome the feature
\* comparison is not entered, and the run never ends in an error raised for
\* a missing gc or length attribute.
C8_FeatureComparisonGuarded ==
    /\ FeaturesMissing => do_pc # "compare"
    /\ ~(do_err.type = "AttributeError" /\ do_err.line = 337)

====
